---- MODULE Spec2Model ----
(***************************************************************************)
(* Catalog publishing of imports/plugins/core/catalog/server/methods/      *)
(* catalog.js: the three variant-status predicates, publishProductsTo-     *)
(* Catalog, publishProductInventoryAdjustments and the Meteor method       *)
(* "catalog/publish/products", over a Product Store, a Media Store and a   *)
(* Catalog Store.                                                          *)
(***************************************************************************)
EXTENDS Integers, Sequences, FiniteSets, TLC

VARIABLES
  Products,           \* Product Store: _id -> document (products and variants)
  held,               \* Quantity Resolver state: the variants with a unit on hold
  CatalogCollection,  \* Catalog Store: _id -> entry, or NoDoc
  ids,                \* the array publishProductsToCatalog iterates over
  tasks,              \* one record per element of ids: the async callback's position and locals
  returned,           \* what the call in flight has handed to its caller
  origin,             \* the function entered last: "publish", "method" or "adjust"
  req,                \* the identifiers the method was called with ({}: the method is not the caller)
  caller,             \* the shops the method's user may create products for
  evVariants,         \* an argument of the variant-status predicates
  evResult            \* their three values for evVariants

vars == <<Products, held, CatalogCollection, ids, tasks, returned, origin, req, caller,
          evVariants, evResult>>

\* ------------------------------------------------------------------ bounds
MaxBatch == 2   \* longest productIds array, and most identifiers in a method call
MaxQty == 1     \* largest inventoryQuantity
MaxLen == 2     \* longest variant sequence handed to the predicates on their own

\* ------------------------------------------------------------------ universe
NoDoc == [none |-> TRUE]     \* findOne's undefined
Shops == {"S1", "S2"}
PrimaryShop == "S1"          \* Reaction.getPrimaryShopId()
ActiveShop == "S2"           \* Reaction.getShopId(), the shop of the request
TopIds == {"P1", "P2"}
VariantIds == {"V1", "V2"}
StoreOrder == <<"P1", "P2", "V1", "V2">>    \* the Product Store's natural order
InputIds == {"P1", "P2", "V1", "X"}         \* "X" names no document
AllIds == TopIds \cup VariantIds \cup {"X"}

Range(s) == {s[i] : i \in 1..Len(s)}

SeqsUpTo(S, n) == UNION {[1..k -> S] : k \in 0..n}

\* the arrays of up to n different elements of S
ArraysUpTo(S, n) == {a \in SeqsUpTo(S, n) : \A i, j \in 1..Len(a) : a[i] = a[j] => i = j}

\* $set: the named fields are written, every other field of the document stays
SetFields(doc, fields) ==
  [k \in (DOMAIN doc) \cup (DOMAIN fields) |->
     IF k \in DOMAIN fields THEN fields[k] ELSE doc[k]]

\* a document without some of its fields
Without(doc, names) == [k \in (DOMAIN doc) \ names |-> doc[k]]

\* ------------------------------------------------------------------ Variant-Status Evaluator
\* Catalog.getVariantQuantity: the available quantity, the stored one less the unit on hold
getVariantQuantity(variant) ==
  variant.inventoryQuantity - (IF variant._id \in held THEN 1 ELSE 0)

\* isSoldOut with a variant that does not track inventory counted as sold out
isSoldOutUntrackedTrue(variants) ==
  \A i \in 1..Len(variants) :
    IF variants[i].inventoryManagement
      THEN getVariantQuantity(variants[i]) <= 0
      ELSE TRUE

isSoldOut(variants) ==
  \A i \in 1..Len(variants) :
    IF variants[i].inventoryManagement
      THEN getVariantQuantity(variants[i]) <= 0
      ELSE FALSE

isLowQuantity(variants) ==
  \E i \in 1..Len(variants) :
    LET quantity == getVariantQuantity(variants[i]) IN
    IF variants[i].inventoryManagement /\ variants[i].inventoryPolicy /\ quantity # 0
      THEN quantity <= variants[i].lowInventoryWarningThreshold
      ELSE FALSE

isBackorder(variants) ==
  \A i \in 1..Len(variants) :
    /\ ~variants[i].inventoryPolicy
    /\ variants[i].inventoryManagement
    /\ variants[i].inventoryQuantity = 0

\* ------------------------------------------------------------------ JavaScript values
JsBool(b) == [t |-> "boolean", v |-> b]
JsNumber(n) == [t |-> "number", v |-> n]
JsPromise(b) == [t |-> "promise", v |-> b]    \* a promise, resolved with b once it is
JsThrown(e) == [t |-> "thrown", v |-> e]      \* the call did not return: it threw e
JsNone == [t |-> "none", v |-> FALSE]         \* nothing was called yet

\* the value's truthiness, as every(), ! and && take it
Truthy(x) ==
  CASE x.t = "boolean" -> x.v
    [] x.t = "number" -> x.v # 0
    [] x.t = "promise" -> TRUE
    [] OTHER -> FALSE

\* ------------------------------------------------------------------ Product Store and Media Store
ProductDoc(id, shop, withDescription) ==
  LET base == [_id |-> id, ancestors |-> <<>>, shopId |-> shop, title |-> id] IN
  IF withDescription THEN SetFields(base, [description |-> "text"]) ELSE base

VariantDoc(id, parent, shop, management, policy, quantity) ==
  [_id |-> id, ancestors |-> <<parent>>, shopId |-> shop,
   inventoryManagement |-> management, inventoryPolicy |-> policy,
   inventoryQuantity |-> quantity, lowInventoryWarningThreshold |-> 1]

\* the stores publishing can start from: P1 (shop S1) with the variants V1 and V2, P2 (shop S2) with none
InitialStores ==
  { [id \in TopIds \cup VariantIds |->
       CASE id = "P1" -> ProductDoc("P1", "S1", TRUE)
         [] id = "P2" -> ProductDoc("P2", "S2", FALSE)
         [] id = "V1" -> VariantDoc("V1", "P1", "S1", TRUE, p1, 0)
         [] id = "V2" -> VariantDoc("V2", "P1", "S1", TRUE, FALSE, 0)]
    : p1 \in BOOLEAN }

\* the Quantity Resolver's holds publishing can start from
InitialHolds == {{}, {"V1"}}

StoreDocs == [i \in 1..Len(StoreOrder) |-> Products[StoreOrder[i]]]

\* Products.findOne({ $or: [{ _id: productId }, { ancestors: { $in: [productId] } }] })
FindOneByIdOrAncestor(productId) ==
  LET Test(d) == d._id = productId \/ productId \in Range(d.ancestors)
      found == SelectSeq(StoreDocs, Test)
  IN IF found = <<>> THEN NoDoc ELSE Head(found)

\* Products.findOne({ _id: id })
FindOneById(id) == IF id \in DOMAIN Products THEN Products[id] ELSE NoDoc

\* Products.find({ ancestors: { $in: [productId] } }).fetch()
FindVariants(productId) ==
  LET Test(d) == productId \in Range(d.ancestors) IN SelectSeq(StoreDocs, Test)

\* Products.find({ _id: { $in: ids } }).fetch()
FindByIds(wanted) ==
  LET Test(d) == d._id \in wanted IN SelectSeq(StoreDocs, Test)

\* the Media Store, listed in the order of its sort (metadata.priority, uploadedAt)
MediaStore ==
  << [_id |-> "m1", productId |-> "P1", toGrid |-> 1, workflow |-> "published"],
     [_id |-> "m2", productId |-> "P1", toGrid |-> 1, workflow |-> "archived"],
     [_id |-> "m3", productId |-> "P2", toGrid |-> 0, workflow |-> "published"] >>

\* Media.find({ "metadata.productId": productId, "metadata.toGrid": 1,
\*              "metadata.workflow": { $nin: ["archived", "unpublished"] } }, { sort })
MediaFind(productId) ==
  LET Test(m) == /\ m.productId = productId
                 /\ m.toGrid = 1
                 /\ m.workflow \notin {"archived", "unpublished"}
  IN SelectSeq(MediaStore, Test)

MediaUrl(media, store) == <<media._id, store>>

ProductMedia(mediaArray) ==
  [i \in 1..Len(mediaArray) |->
     [thumbnail |-> MediaUrl(mediaArray[i], "thumbnail"),
      small |-> MediaUrl(mediaArray[i], "small"),
      medium |-> MediaUrl(mediaArray[i], "medium"),
      large |-> MediaUrl(mediaArray[i], "large"),
      image |-> MediaUrl(mediaArray[i], "image")]]

\* Reaction.hasPermission("createProduct", userId, shopId)
HasPermission(user, shopId) == shopId \in user

\* a caller is the set of shops it holds createProduct for
Callers == SUBSET Shops

\* ------------------------------------------------------------------ Catalog Publisher
\* A call is modelled from its entry to its return as one step: JavaScript runs it to
\* completion. An async callback runs to its await inside that step and goes on, one
\* step per callback, once the awaited Media.find has answered. Calls are taken one at a
\* time: the next is entered when the callbacks of the one before have settled.
\* an async callback of every(): st is where it stands, product and variants are its locals
Settled(task) == task.st \in {"done", "rejected"}
SettledTask(st) == [st |-> st, product |-> NoDoc, variants |-> <<>>]
Idle == \A i \in 1..Len(tasks) : Settled(tasks[i])

\* the callback for productId from its start to its await: the lookups of lines 61-82
Callback(productId) ==
  LET found == FindOneByIdOrAncestor(productId)
      product == IF found # NoDoc /\ found.ancestors # <<>>
                   THEN FindOneById(found.ancestors[1])
                   ELSE found
  IN IF found = NoDoc
       THEN SettledTask("rejected")      \* the throw rejects the callback's promise
       ELSE [st |-> "awaiting", product |-> product, variants |-> FindVariants(productId)]

\* what the callback hands back to every(): an async function returns a promise, an
\* object, whatever the promise settles to later
CallbackReturn(task) == JsPromise(task.st = "done")

\* ids.every(async ...): whether every callback's return value is truthy
EveryResult(started) == \A i \in 1..Len(started) : Truthy(CallbackReturn(started[i]))

\* the value publishProductsToCatalog(productIds) returns for the callbacks it started
PublishResult(started) == JsPromise(EveryResult(started))

\* publishProductsToCatalog(productIds), from its entry to its return: every() has run
\* each callback to its await; a string is an array of one
PublishCall(productIds) ==
  LET started == [i \in 1..Len(productIds) |-> Callback(productIds[i])] IN
  /\ Idle
  /\ ids' = productIds
  /\ tasks' = started
  /\ returned' = PublishResult(started)
  /\ origin' = "publish"
  /\ req' = {}
  /\ caller' = {}
  /\ UNCHANGED <<Products, held, CatalogCollection, evVariants, evResult>>

\* CatalogProduct with the variants copied whole, inventoryQuantity included
CatalogProductKeepsQuantity(product, variants, productId) ==
  SetFields(product,
    [media |-> ProductMedia(MediaFind(productId)),
     type |-> "product-simple",
     isSoldOut |-> isSoldOut(variants),
     isBackorder |-> isBackorder(variants),
     isLowQuantity |-> isLowQuantity(variants),
     variants |-> variants])

\* the entry the callback builds: the product with media, type, the three booleans and the
\* variants without their inventoryQuantity
CatalogProduct(product, variants, productId) ==
  SetFields(product,
    [media |-> ProductMedia(MediaFind(productId)),
     type |-> "product-simple",
     isSoldOut |-> isSoldOut(variants),
     isBackorder |-> isBackorder(variants),
     isLowQuantity |-> isLowQuantity(variants),
     variants |-> [i \in 1..Len(variants) |-> Without(variants[i], {"inventoryQuantity"})]])

\* what upsert({ _id }, { $set: doc }) leaves under _id
Upserted(id, doc) ==
  SetFields(IF CatalogCollection[id] = NoDoc THEN [_id |-> id] ELSE CatalogCollection[id],
            Without(doc, {"_id"}))

\* the callback for element i resumes after its await, builds the entry and upserts it;
\* numberAffected is 1 when the upsert went through. Without a product (the ancestor
\* is gone) product.media throws. $set names the product's own _id: where that is not
\* the selector's, the store either refuses the write (the callback's promise rejects)
\* or keeps the selector's _id.
Write(i) ==
  /\ tasks[i].st = "awaiting"
  /\ LET product == tasks[i].product
         doc == CatalogProduct(product, tasks[i].variants, ids[i])
     IN \/ /\ product # NoDoc
           /\ CatalogCollection' = [CatalogCollection EXCEPT ![ids[i]] = Upserted(ids[i], doc)]
           /\ tasks' = [tasks EXCEPT ![i] = SettledTask("done")]
        \/ /\ product = NoDoc \/ product._id # ids[i]
           /\ tasks' = [tasks EXCEPT ![i] = SettledTask("rejected")]
           /\ UNCHANGED CatalogCollection
  /\ UNCHANGED <<Products, held, ids, returned, origin, req, caller, evVariants, evResult>>

\* PublisableProductIds without its permission filter
PublisableProductIdsUnfiltered(user, productIds) ==
  LET productsToPublish == FindByIds(productIds)
  IN [i \in 1..Len(productsToPublish) |-> productsToPublish[i]._id]

\* the products of productIds the user may publish (lines 177-188)
PublisableProductIds(user, productIds) ==
  LET productsToPublish == FindByIds(productIds)
      canUpdatePrimaryShopProducts == HasPermission(user, PrimaryShop)
      Allowed(product) == HasPermission(user, product.shopId) \/ canUpdatePrimaryShopProducts
      publisable == SelectSeq(productsToPublish, Allowed)
  IN [i \in 1..Len(publisable) |-> publisable[i]._id]

\* what the method returns once publishProductsToCatalog has handed it success
MethodResult(success) ==
  IF ~Truthy(success) THEN JsThrown("server-error") ELSE JsBool(TRUE)

\* Meteor method "catalog/publish/products", called by user with productIds
PublishProductsMethod(user, productIds) ==
  /\ Idle
  /\ req' = productIds
  /\ caller' = user
  /\ origin' = "method"
  /\ IF ~HasPermission(user, ActiveShop)
       THEN /\ returned' = JsThrown("access-denied")
            /\ ids' = <<>>
            /\ tasks' = <<>>
       ELSE LET publisableProductIds == PublisableProductIds(user, productIds)
                started == [i \in 1..Len(publisableProductIds) |->
                              Callback(publisableProductIds[i])]
            IN /\ ids' = publisableProductIds
               /\ tasks' = started
               /\ returned' = MethodResult(PublishResult(started))
  /\ UNCHANGED <<Products, held, CatalogCollection, evVariants, evResult>>

\* the three booleans publishProductInventoryAdjustments computes
InventoryUpdate(productId) ==
  LET variants == FindVariants(productId) IN
  [isSoldOut |-> isSoldOut(variants),
   isBackorder |-> isBackorder(variants),
   isLowQuantity |-> isLowQuantity(variants)]

\* InventoryChanged looking at isSoldOut alone
InventoryChangedSoldOutOnly(update, catalogProduct) ==
  update.isSoldOut # catalogProduct.isSoldOut

\* Only apply changes of one these fields have changed
InventoryChanged(update, catalogProduct) ==
  \/ update.isSoldOut # catalogProduct.isSoldOut
  \/ update.isBackorder # catalogProduct.isBackorder
  \/ update.isLowQuantity # catalogProduct.isLowQuantity

\* CatalogCollection.update's return value: the number of entries it changed
UpdateResult(productId) == JsNumber(IF CatalogCollection[productId] = NoDoc THEN 0 ELSE 1)

\* AdjustedEntry with the update document taken as the whole entry, not as $set
AdjustedEntryReplaced(catalogProduct, update) ==
  SetFields([_id |-> catalogProduct._id], update)

\* what update({ _id }, { $set: update }) leaves of the entry
AdjustedEntry(catalogProduct, update) == SetFields(catalogProduct, update)

\* publishProductInventoryAdjustments(productId), from its entry to its return or throw
publishProductInventoryAdjustments(productId) ==
  LET catalogProduct == CatalogCollection[productId]
      update == InventoryUpdate(productId)
  IN /\ Idle
     /\ origin' = "adjust"
     /\ ids' = <<productId>>
     /\ tasks' = <<>>
     /\ IF catalogProduct = NoDoc
          THEN /\ returned' = JsThrown("error")
               /\ UNCHANGED CatalogCollection
          ELSE IF InventoryChanged(update, catalogProduct)
            THEN /\ CatalogCollection' =
                      [CatalogCollection EXCEPT ![productId] = AdjustedEntry(catalogProduct, update)]
                 /\ returned' = UpdateResult(productId)
            ELSE /\ returned' = JsBool(FALSE)
                 /\ UNCHANGED CatalogCollection
     /\ req' = {}
     /\ caller' = {}
     /\ UNCHANGED <<Products, held, evVariants, evResult>>

\* ------------------------------------------------------------------ the stores' other writers
\* an inventory mutation: a variant's stored quantity is set
SetInventory(variantId, quantity) ==
  /\ Products[variantId].inventoryQuantity # quantity
  /\ Products' = [Products EXCEPT ![variantId].inventoryQuantity = quantity]
  /\ UNCHANGED <<held, CatalogCollection, ids, tasks, returned, origin, req, caller,
                 evVariants, evResult>>

\* a product edit: the description of a top-level product is removed, or set
EditProduct(productId) ==
  /\ Products' = [Products EXCEPT ![productId] =
                    IF "description" \in DOMAIN Products[productId]
                      THEN Without(Products[productId], {"description"})
                      ELSE SetFields(Products[productId], [description |-> "text"])]
  /\ UNCHANGED <<held, CatalogCollection, ids, tasks, returned, origin, req, caller,
                 evVariants, evResult>>

\* ------------------------------------------------------------------ specification
Batches == ArraysUpTo(InputIds, MaxBatch) \ {<<>>}
Requests == {r \in SUBSET (InputIds \ {"X"}) : r # {} /\ Cardinality(r) <= MaxBatch}

Init ==
  /\ Products \in InitialStores
  /\ held \in InitialHolds
  /\ CatalogCollection = [id \in AllIds |-> NoDoc]
  /\ ids = <<>>
  /\ tasks = <<>>
  /\ returned = JsNone
  /\ origin = "publish"
  /\ req = {}
  /\ caller = {}
  /\ evVariants = <<>>
  /\ evResult = NoDoc

Next ==
  \/ \E productIds \in Batches : PublishCall(productIds)
  \/ \E user \in Callers, productIds \in Requests : PublishProductsMethod(user, productIds)
  \/ \E i \in 1..Len(tasks) : Write(i)
  \/ \E productId \in InputIds : publishProductInventoryAdjustments(productId)
  \/ \E quantity \in 0..MaxQty : SetInventory("V1", quantity)

Spec == Init /\ [][Next]_vars

\* ------------------------------------------------------------------ the predicates on their own
EvalVariants ==
  [_id : VariantIds, inventoryManagement : BOOLEAN, inventoryPolicy : BOOLEAN,
   inventoryQuantity : 0..MaxQty, lowInventoryWarningThreshold : {1}]

InitEval ==
  /\ Products \in InitialStores
  /\ held \in SUBSET VariantIds
  /\ CatalogCollection = [id \in AllIds |-> NoDoc]
  /\ ids = <<>>
  /\ tasks = <<>>
  /\ returned = JsNone
  /\ origin = "publish"
  /\ req = {}
  /\ caller = {}
  /\ evVariants \in SeqsUpTo(EvalVariants, MaxLen)
  /\ evResult = NoDoc

Evaluate ==
  /\ evResult = NoDoc
  /\ evResult' = [isSoldOut |-> isSoldOut(evVariants),
                  isBackorder |-> isBackorder(evVariants),
                  isLowQuantity |-> isLowQuantity(evVariants)]
  /\ UNCHANGED <<Products, held, CatalogCollection, ids, tasks, returned, origin, req,
                 caller, evVariants>>

NextEval == Evaluate

SpecEval == InitEval /\ [][NextEval]_vars

\* ------------------------------------------------------------------ publishing an edited product
\* single products are published while their descriptive fields are edited
NextEdit ==
  \/ \E productId \in InputIds : PublishCall(<<productId>>)
  \/ \E i \in 1..Len(tasks) : Write(i)
  \/ \E productId \in InputIds : publishProductInventoryAdjustments(productId)
  \/ \E quantity \in 0..MaxQty : SetInventory("V1", quantity)
  \/ EditProduct("P1")

SpecEdit == Init /\ [][NextEdit]_vars

\* ------------------------------------------------------------------ claims
TopLevel(id) == id \in DOMAIN Products /\ Products[id].ancestors = <<>>
NotFound(id) == FindOneByIdOrAncestor(id) = NoDoc
StatusFields == {"isSoldOut", "isBackorder", "isLowQuantity"}

\* the step is callback i's upsert going through
Published(i) ==
  /\ i \in 1..Len(tasks)
  /\ tasks[i].st = "awaiting"
  /\ Write(i)
  /\ tasks'[i].st = "done"

\* the step is a call of publishProductsToCatalog, directly or by the method
Called ==
  \/ \E productIds \in Batches : PublishCall(productIds)
  \/ \E user \in Callers, productIds \in Requests : PublishProductsMethod(user, productIds)

\* C1: when the publish of an existing top-level product p has made its catalog write, the
\* entry keyed p has type "product-simple", its three booleans are the evaluator's
\* predicates of the variants that publish read, the variants it read are the documents
\* whose ancestors include p, the entry holds one record per such variant, and no record
\* has an inventoryQuantity. The publish of such a product is never rejected.
C1_PublishedEntry ==
  [][ /\ Called =>
           \A i \in 1..Len(tasks') :
             (TopLevel(ids'[i]) /\ tasks'[i].st = "awaiting") =>
               /\ Range(tasks'[i].variants) =
                    {Products[x] : x \in {d \in DOMAIN Products : ids'[i] \in Range(Products[d].ancestors)}}
               /\ Len(tasks'[i].variants) = Cardinality(Range(tasks'[i].variants))
      /\ \A i \in 1..Len(tasks') : TopLevel(ids'[i]) => tasks'[i].st # "rejected"
      /\ \A i \in 1..Len(tasks) :
           (Published(i) /\ TopLevel(ids[i])) =>
             LET entry == CatalogCollection'[ids[i]]
                 read == tasks[i].variants
             IN /\ entry # NoDoc
                /\ entry.type = "product-simple"
                /\ entry.isSoldOut = isSoldOut(read)
                /\ entry.isBackorder = isBackorder(read)
                /\ entry.isLowQuantity = isLowQuantity(read)
                /\ Len(entry.variants) = Len(read)
                /\ \A k \in 1..Len(read) :
                     /\ entry.variants[k]._id = read[k]._id
                     /\ "inventoryQuantity" \notin DOMAIN entry.variants[k]
    ]_vars

\* C1 witness: publish("P1") has written: two variant records, one media record
C1_Witness ==
  /\ origin = "publish"
  /\ ids = <<"P1">>
  /\ tasks[1].st = "done"
  /\ CatalogCollection["P1"] # NoDoc
  /\ CatalogCollection["P1"].type = "product-simple"
  /\ Len(CatalogCollection["P1"].variants) = 2
  /\ Len(CatalogCollection["P1"].media) = 1

ReportsSuccess ==
  \/ origin = "publish" /\ returned = JsPromise(TRUE)
  \/ origin = "method" /\ returned = JsBool(TRUE)

\* C3: publish reports success, and the method returns true, only if every per-product
\* publish of the batch succeeded
C3_SuccessOnlyIfAllSucceeded ==
  (Idle /\ ReportsSuccess) => \A i \in 1..Len(tasks) : tasks[i].st = "done"

\* C4: publish raises to its caller when an identifier of the batch matches no product,
\* publishProductInventoryAdjustments raises when no entry has the identifier, and in both
\* cases no entry is created for it
C4_NotFoundRaised ==
  /\ (origin = "publish" /\ \E i \in 1..Len(ids) : NotFound(ids[i])) => returned.t = "thrown"
  /\ (origin = "adjust" /\ CatalogCollection[ids[1]] = NoDoc) => returned.t = "thrown"
  /\ \A id \in DOMAIN CatalogCollection : NotFound(id) => CatalogCollection[id] = NoDoc

\* the step is publishProductInventoryAdjustments(p) on an existing entry
Adjusts(p) == CatalogCollection[p] # NoDoc /\ publishProductInventoryAdjustments(p)

C6_AdjustmentFrame ==
  [][ \A p \in InputIds :
        (Adjusts(p) /\ CatalogCollection' # CatalogCollection) =>
          /\ DOMAIN CatalogCollection'[p] = DOMAIN CatalogCollection[p]
          /\ \A f \in (DOMAIN CatalogCollection[p]) \ StatusFields :
               CatalogCollection'[p][f] = CatalogCollection[p][f]
          /\ \A q \in (DOMAIN CatalogCollection) \ {p} :
               CatalogCollection'[q] = CatalogCollection[q]
          /\ Products' = Products
    ]_vars

\* C6 witness: an adjustment has written to an entry with media, variants and a
\* description while another entry exists
C6_Witness ==
  /\ origin = "adjust"
  /\ returned.t = "number"
  /\ ids = <<"P1">>
  /\ "description" \in DOMAIN CatalogCollection["P1"]
  /\ CatalogCollection["P1"].media # <<>>
  /\ CatalogCollection["P1"].variants # <<>>
  /\ CatalogCollection["V1"] # NoDoc

\* C7: after the publish of top-level product p has written, the entry keyed p is exactly
\* the newly built projection: no field of an earlier entry survives beside it
C7_ReplacesEntry ==
  [][ \A i \in 1..Len(tasks) :
        (Published(i) /\ TopLevel(ids[i])) =>
          CatalogCollection'[ids[i]] =
            CatalogProduct(tasks[i].product, tasks[i].variants, ids[i])
    ]_vars

\* the requested products the method's user may publish, and those it may not
Permitted(user, wanted) ==
  {id \in wanted \cap DOMAIN Products :
     HasPermission(user, Products[id].shopId) \/ HasPermission(user, PrimaryShop)}
Excluded(user, wanted) == (wanted \cap DOMAIN Products) \ Permitted(user, wanted)

\* C8: in a method call that passes the active-shop check, the products the user holds
\* permission for neither per shop nor globally are left out, no entry is written for
\* them, the call returns true, and every permitted product is in the batch: a permitted
\* top-level product is never rejected and has its entry once the batch has settled
C8_ExcludedSilently ==
  [][ (origin' = "method" /\ HasPermission(caller', ActiveShop)) =>
        /\ Range(ids') = Permitted(caller', req')
        /\ returned' = JsBool(TRUE)
        /\ \A id \in Excluded(caller', req') : CatalogCollection'[id] = CatalogCollection[id]
        /\ \A i \in 1..Len(ids') :
             TopLevel(ids'[i]) =>
               /\ tasks'[i].st # "rejected"
               /\ tasks'[i].st = "done" => CatalogCollection'[ids'[i]] # NoDoc
    ]_vars

\* C8 witness: the user holds permission for shop S2 only and asked for P1 and P2: P2 is
\* published, P1 is not, and the call returned true
C8_Witness ==
  /\ origin = "method"
  /\ caller = {"S2"}
  /\ req = {"P1", "P2"}
  /\ ids = <<"P2">>
  /\ tasks[1].st = "done"
  /\ returned = JsBool(TRUE)
  /\ CatalogCollection["P2"] # NoDoc
  /\ CatalogCollection["P1"] = NoDoc

\* C9 as claimed: isSoldOut(variants) is true exactly if every variant does not track
\* inventory or has a quantity of at most 0
C9_UntrackedCountsAsSoldOut ==
  evResult # NoDoc =>
    (evResult.isSoldOut <=>
       \A i \in 1..Len(evVariants) :
         ~evVariants[i].inventoryManagement \/ getVariantQuantity(evVariants[i]) <= 0)

\* C9 as amended: isSoldOut(variants) is true exactly if every variant tracks inventory
\* and has a quantity of at most 0; the empty sequence yields true
C9_TrackedAndEmpty ==
  evResult # NoDoc =>
    /\ evResult.isSoldOut <=>
         \A i \in 1..Len(evVariants) :
           evVariants[i].inventoryManagement /\ getVariantQuantity(evVariants[i]) <= 0
    /\ evVariants = <<>> => evResult.isSoldOut

\* C9 witness: the predicates were evaluated on a sequence with a variant that does not
\* track inventory beside one that is out of stock
C9_Witness ==
  /\ evResult # NoDoc
  /\ Len(evVariants) = 2
  /\ ~evVariants[1].inventoryManagement
  /\ evVariants[2].inventoryManagement /\ getVariantQuantity(evVariants[2]) <= 0
  /\ ~evResult.isSoldOut

\* C10: the elements of a batch are processed one after the other, each product's steps
\* complete before the next product's start (a callback that has started finds every
\* earlier one settled), and every catalog write has completed when the call has
\* returned its value
C10_SequentialAndJoined ==
  (origin \in {"publish", "method"} /\ returned # JsNone) =>
    /\ \A i \in 1..Len(tasks) : Settled(tasks[i])
    /\ \A i, j \in 1..Len(tasks) :
         (i < j /\ tasks[j].st \in {"awaiting", "done", "rejected"}) => Settled(tasks[i])

====
